---- MODULE Spec2Model ----
(***************************************************************************)
(* A model of WAIDataset (src/src/mvsanywhere/datasets/wai_dataset.py):    *)
(* the per-scene metadata cache, the valid-frame enumerator with its text  *)
(* cache file, the depth loaders and the intrinsics resolver.              *)
(*                                                                         *)
(* Strings are sequences of one-character strings, so that rstrip, the    *)
(* substring test, the line format and readlines are computed.  Floats    *)
(* are records: a finite rational n/d, or NaN, +inf, -inf.                 *)
(***************************************************************************)
EXTENDS Integers, Sequences, FiniteSets, TLC

VARIABLES
    metaFile,          \* scene_meta.json on disk, per scan id
    capture_metadata,  \* self.capture_metadata: scan id -> parsed metadata
    vfFile,            \* valid_frames.txt on disk, per <<sub folder, scan id>>
    vfDir,             \* the directories of valid_frames.txt that exist
    readOnly,          \* whether the filesystem refuses writes
    depthFile,         \* the depth .exr on disk, per scan id (one frame)
    config,            \* the dataset's constructor arguments
    ret                \* the last call: its arguments, outcome and reads

vars == <<metaFile, capture_metadata, vfFile, vfDir, readOnly, depthFile, config, ret>>

-----------------------------------------------------------------------------
(* Bounds of the model.                                                    *)

MaxFrames == 3      \* frames in a scene_meta.json frame list
F32Max == 100000    \* stand-in for the largest finite float32
MaxPixels == 3      \* pixels of a stored depth image (one row or one column)
PlaceholderSide == 2   \* stand-in for the side, 1000, of the placeholder array
NumScales == 2      \* prediction_num_scales

-----------------------------------------------------------------------------
(* Floats.                                                                 *)

Fin(n) == [k |-> "fin", n |-> n, d |-> 1]
Rat(n, d) == [k |-> "fin", n |-> n, d |-> d]
NaN == [k |-> "nan", n |-> 0, d |-> 1]
PInf == [k |-> "pinf", n |-> 0, d |-> 1]
NInf == [k |-> "ninf", n |-> 0, d |-> 1]

IsNaN(a) == a.k = "nan"
IsPosInf(a) == a.k = "pinf"
IsNegInf(a) == a.k = "ninf"
IsFinite(a) == a.k = "fin"

\* float32 rounding of an integer-valued result: only overflow is modelled
Round32(n) ==
    IF n > F32Max THEN PInf ELSE IF n < -F32Max THEN NInf ELSE Fin(n)

\* IEEE addition on integer-valued floats
FAdd(a, b) ==
    IF IsNaN(a) \/ IsNaN(b) THEN NaN
    ELSE IF IsPosInf(a) THEN (IF IsNegInf(b) THEN NaN ELSE PInf)
    ELSE IF IsNegInf(a) THEN (IF IsPosInf(b) THEN NaN ELSE NInf)
    ELSE IF ~IsFinite(b) THEN b
    ELSE Round32(a.n + b.n)

\* IEEE a < b: false as soon as one side is NaN
FLt(a, b) ==
    IF IsNaN(a) \/ IsNaN(b) THEN FALSE
    ELSE IF IsNegInf(a) THEN ~IsNegInf(b)
    ELSE IF IsPosInf(a) THEN FALSE
    ELSE IF IsPosInf(b) THEN TRUE
    ELSE IF IsNegInf(b) THEN FALSE
    ELSE a.n * b.d < b.n * a.d

FGt(a, b) == FLt(b, a)

-----------------------------------------------------------------------------
(* Strings.                                                                *)

NL == "\n"
SP == " "

RECURSIVE rstrip(_)
\* str.rstrip("\n"): drops every trailing newline
rstrip(s) ==
    IF Len(s) > 0 /\ s[Len(s)] = NL THEN rstrip(SubSeq(s, 1, Len(s) - 1)) ELSE s

Digit(n) == <<"0", "1", "2", "3", "4", "5", "6", "7", "8", "9">>[n + 1]

RECURSIVE IntToStr(_)
\* str() of a non-negative int, as the f-string formats the gap
IntToStr(n) == IF n < 10 THEN <<Digit(n)>> ELSE IntToStr(n \div 10) \o <<Digit(n % 10)>>

\* f"{scan} {frame_ind} {dist_to_last_valid_frame}"
FormatLine(scan, frame_ind, gap) ==
    scan \o <<SP>> \o frame_ind \o <<SP>> \o IntToStr(gap)

-----------------------------------------------------------------------------
(* Poses: transform_matrix, 16 floats in row-major order.                  *)

IdentInts == <<1, 0, 0, 0,  0, 1, 0, 0,  0, 0, 1, 0,  0, 0, 0, 1>>
Ident == [i \in 1..16 |-> Fin(IdentInts[i])]
NaNPose == [Ident EXCEPT ![4] = NaN]
PInfPose == [Ident EXCEPT ![4] = PInf]
NInfPose == [Ident EXCEPT ![8] = NInf]
MixPose == [Ident EXCEPT ![4] = PInf, ![8] = NInf]
ZeroPose == [i \in 1..16 |-> Fin(0)]
BigPose == [Ident EXCEPT ![4] = Fin(60000), ![8] = Fin(60000)]

\* the matrices a scene_meta.json of the model holds, by name: a frame record
\* stores the name of its transform_matrix
PoseMatrix ==
    [ident |-> Ident, nan |-> NaNPose, pinf |-> PInfPose, ninf |-> NInfPose,
     mix |-> MixPose, zero |-> ZeroPose, big |-> BigPose]

\* np.sum of the 16 float32 entries: numpy's pairwise sum keeps eight partial
\* sums r[j] = a[j] + a[8 + j] and adds them as a balanced tree
npsum(m) ==
    LET r == [j \in 1..8 |-> FAdd(m[j], m[8 + j])]
    IN  FAdd(FAdd(FAdd(r[1], r[2]), FAdd(r[3], r[4])),
             FAdd(FAdd(r[5], r[6]), FAdd(r[7], r[8])))

\* BadPoseSum testing for NaN only
BadPoseSumNaNOnly(m) == IsNaN(npsum(m))

\* the test of get_valid_frame_ids on the pose sum
BadPoseSum(m) ==
    LET s == npsum(m) IN IsNaN(s) \/ (IsPosInf(s) \/ IsNegInf(s)) \/ IsNegInf(s)

Rows(m) == [i \in 1..4 |-> [j \in 1..4 |-> m[4 * (i - 1) + j].n]]

DropAt(s, j) == [i \in 1..(Len(s) - 1) |-> IF i < j THEN s[i] ELSE s[i + 1]]

RECURSIVE Det(_), DetSum(_, _)
\* determinant by expansion along the first row
Det(M) == IF Len(M) = 1 THEN M[1][1] ELSE DetSum(M, Len(M))
DetSum(M, j) ==
    IF j = 0 THEN 0
    ELSE LET minor == [i \in 1..(Len(M) - 1) |-> DropAt(M[i + 1], j)]
             sign == IF j % 2 = 1 THEN 1 ELSE -1
         IN  (IF M[1][j] = 0 THEN 0 ELSE sign * M[1][j] * Det(minor)) + DetSum(M, j - 1)

\* np.linalg.inv raises LinAlgError when the LU factorisation meets a pivot that
\* is exactly zero; a NaN or infinite entry never compares equal to zero
IsSingular(m) == (\A i \in 1..16 : IsFinite(m[i])) /\ Det(Rows(m)) = 0

-----------------------------------------------------------------------------
(* scene_meta.json and the metadata cache.                                 *)

\* the ordered dict frame_data: keys in insertion order, and their values
EmptyDict == [keys |-> <<>>, val |-> <<>>]
DictHas(d, key) == \E i \in 1..Len(d.keys) : d.keys[i] = key
DictGet(d, key) == d.val[CHOOSE i \in 1..Len(d.keys) : d.keys[i] = key]
\* DictSet as a list append: a repeated key is stored again
DictSetAppend(d, key, v) == [keys |-> Append(d.keys, key), val |-> Append(d.val, v)]

\* DictSet as setdefault: a known key keeps its first value
DictSetKeepFirst(d, key, v) ==
    IF DictHas(d, key) THEN d
    ELSE [keys |-> Append(d.keys, key), val |-> Append(d.val, v)]

\* frame_data[key] = v: a new key goes last, a known key keeps its place
DictSet(d, key, v) ==
    IF DictHas(d, key)
    THEN [d EXCEPT !.val[CHOOSE i \in 1..Len(d.keys) : d.keys[i] = key] = v]
    ELSE [keys |-> Append(d.keys, key), val |-> Append(d.val, v)]

RECURSIVE FrameData(_, _)
\* for frame in capture_metadata["frames"]: frame_data[frame["file_path"]] = frame
FrameData(frames, d) ==
    IF frames = <<>> THEN d
    ELSE FrameData(Tail(frames), DictSet(d, Head(frames).file_path, Head(frames)))

Ok(v) == [status |-> "ok", err |-> "", value |-> v]
Raise(e) == [status |-> "raise", err |-> e, value |-> <<>>]

\* load_capture_metadata without the early return: the file is read at each call
LoadCaptureMetadataReload(cm, mf, scan_id) ==
    LET file == IF scan_id \in DOMAIN mf THEN mf[scan_id] ELSE [kind |-> "absent"]
    IN  IF file.kind # "ok" \/ \E i \in 1..Len(file.frames) : ~file.frames[i].has_path
        THEN [out |-> Raise("Error"), cm |-> cm, metaRead |-> TRUE]
        ELSE [out |-> Ok(<<>>),
              cm |-> [s \in DOMAIN cm \cup {scan_id} |->
                         IF s = scan_id THEN [intr |-> file.intr,
                                              frames |-> FrameData(file.frames, EmptyDict)]
                         ELSE cm[s]],
              metaRead |-> TRUE]

\* load_capture_metadata that puts the scene in the cache before it walks the
\* frame list: a frame without "file_path" leaves the scene's entry behind
LoadCaptureMetadataEager(cm, mf, scan_id) ==
    IF scan_id \in DOMAIN cm
    THEN [out |-> Ok(<<>>), cm |-> cm, metaRead |-> FALSE]
    ELSE LET file == IF scan_id \in DOMAIN mf THEN mf[scan_id] ELSE [kind |-> "absent"]
             entry == [intr |-> file.intr,
                       frames |-> FrameData(SelectSeq(file.frames, LAMBDA f : f.has_path),
                                            EmptyDict)]
         IN  IF file.kind = "absent"
             THEN [out |-> Raise("FileNotFoundError"), cm |-> cm, metaRead |-> FALSE]
             ELSE IF file.kind = "badjson"
             THEN [out |-> Raise("JSONDecodeError"), cm |-> cm, metaRead |-> TRUE]
             ELSE IF file.kind = "noframes"
             THEN [out |-> Raise("KeyError"), cm |-> cm, metaRead |-> TRUE]
             ELSE [out |-> IF \E i \in 1..Len(file.frames) : ~file.frames[i].has_path
                           THEN Raise("KeyError") ELSE Ok(<<>>),
                   cm |-> (scan_id :> entry) @@ cm,
                   metaRead |-> TRUE]

\* load_capture_metadata(scan_id) on the cache cm, with the files mf on disk:
\* the outcome, the cache afterwards and whether scene_meta.json was opened
LoadCaptureMetadata(cm, mf, scan_id) ==
    IF scan_id \in DOMAIN cm
    THEN [out |-> Ok(<<>>), cm |-> cm, metaRead |-> FALSE]
    ELSE LET file == IF scan_id \in DOMAIN mf THEN mf[scan_id] ELSE [kind |-> "absent"]
         IN  IF file.kind = "absent"
             THEN [out |-> Raise("FileNotFoundError"), cm |-> cm, metaRead |-> FALSE]
             ELSE IF file.kind = "badjson"
             THEN [out |-> Raise("JSONDecodeError"), cm |-> cm, metaRead |-> TRUE]
             ELSE IF file.kind = "noframes"
             THEN [out |-> Raise("KeyError"), cm |-> cm, metaRead |-> TRUE]
             ELSE IF \E i \in 1..Len(file.frames) : ~file.frames[i].has_path
             THEN [out |-> Raise("KeyError"), cm |-> cm, metaRead |-> TRUE]
             ELSE [out |-> Ok(<<>>),
                   cm |-> (scan_id :> [intr |-> file.intr,
                                       frames |-> FrameData(file.frames, EmptyDict)]) @@ cm,
                   metaRead |-> TRUE]

\* self.capture_metadata[scan_id]["frames"] == "opengl": a dict is never equal
\* to a string, so the axis correction is never applied
IsOpenGL(frames) == FALSE

gl_to_cv == <<1, -1, -1, 1,  -1, 1, 1, -1,  -1, 1, 1, -1,  1, 1, 1, 1>>

FMulSign(a, s) ==
    IF s = 1 \/ IsNaN(a) THEN a
    ELSE IF IsPosInf(a) THEN NInf ELSE IF IsNegInf(a) THEN PInf ELSE Rat(-a.n, a.d)

\* load_pose(scan_id, frame_id): world_T_cam, or the error raised
LoadPose(cm, mf, scan_id, frame_id) ==
    LET l == LoadCaptureMetadata(cm, mf, scan_id)
    IN  IF l.out.status = "raise" THEN l
        ELSE IF ~DictHas(l.cm[scan_id].frames, frame_id)
        THEN [l EXCEPT !.out = Raise("KeyError")]
        ELSE LET t == PoseMatrix[DictGet(l.cm[scan_id].frames, frame_id).transform_matrix]
                 world_T_cam == IF IsOpenGL(l.cm[scan_id].frames)
                                THEN [i \in 1..16 |-> FMulSign(t[i], gl_to_cv[i])]
                                ELSE t
             IN  IF IsSingular(world_T_cam)
                 THEN [l EXCEPT !.out = Raise("LinAlgError")]
                 ELSE [l EXCEPT !.out = Ok(world_T_cam)]

-----------------------------------------------------------------------------
(* load_intrinsics.  A matrix is 16 exact rationals in row-major order.    *)

RECURSIVE GCD(_, _)
GCD(a, b) == IF b = 0 THEN a ELSE GCD(b, a % b)
Abs(n) == IF n < 0 THEN -n ELSE n

\* the rational n/d in lowest terms, d > 0
Norm(n, d) ==
    LET g == GCD(Abs(n), Abs(d))
        sg == IF d < 0 THEN -1 ELSE 1
    IN  Rat(sg * (n \div g), sg * (d \div g))

RMul(a, b) == Norm(a.n * b.n, a.d * b.d)
RSub(a, b) == Norm(a.n * b.d - b.n * a.d, a.d * b.d)
RDiv(a, b) == Norm(a.n * b.d, a.d * b.n)

At(i, j) == 4 * i + j + 1      \* K[i, j], indices from 0
Eye4 == [i \in 1..16 |-> Fin(IdentInts[i])]

\* K[row] *= f
ScaleRow(K, row, f) ==
    [i \in 1..16 |-> IF (i - 1) \div 4 = row THEN RMul(K[i], f) ELSE K[i]]

\* the block of load_intrinsics under "if self.rotate_images", on one matrix
RotateK(K, height) ==
    [K EXCEPT ![At(0, 0)] = K[At(1, 1)],
              ![At(1, 1)] = K[At(0, 0)],
              ![At(1, 2)] = K[At(0, 2)],
              ![At(0, 2)] = RSub(Fin(height), K[At(1, 2)])]

\* K_scaled of scale i: the focal lengths and the principal point over 2**i
ScaleK(K, i) ==
    [K EXCEPT ![At(0, 0)] = RDiv(K[At(0, 0)], Fin(2 ^ i)),
              ![At(1, 1)] = RDiv(K[At(1, 1)], Fin(2 ^ i)),
              ![At(0, 2)] = RDiv(K[At(0, 2)], Fin(2 ^ i)),
              ![At(1, 2)] = RDiv(K[At(1, 2)], Fin(2 ^ i))]

\* torch.linalg.inv raises on a singular matrix: here a zero focal length
KSingular(K) == K[At(0, 0)].n = 0 \/ K[At(1, 1)].n = 0

\* the inverse of [[a, 0, c, 0], [0, b, d, 0], [0, 0, 1, 0], [0, 0, 0, 1]]
InvK(K) ==
    [Eye4 EXCEPT ![At(0, 0)] = RDiv(Fin(1), K[At(0, 0)]),
                 ![At(1, 1)] = RDiv(Fin(1), K[At(1, 1)]),
                 ![At(0, 2)] = RDiv(RSub(Fin(0), K[At(0, 2)]), K[At(0, 0)]),
                 ![At(1, 2)] = RDiv(RSub(Fin(0), K[At(1, 2)]), K[At(1, 1)])]

\* frame_data[name] if name in frame_data else json_data[name]
IntrField(json_data, frame_data, name) ==
    IF name \in frame_data.ovr.has THEN frame_data.ovr.val[name] ELSE json_data.intr[name]

\* the matrices load_intrinsics puts in output_dict for one frame record
IntrinsicsDict(cfg, json_data, frame_data, flip) ==
    LET width_pixels == IntrField(json_data, frame_data, "w")
        height_pixels == IntrField(json_data, frame_data, "h")
        c_x0 == IntrField(json_data, frame_data, "cx")
        c_y == IntrField(json_data, frame_data, "cy")
        f_x == IntrField(json_data, frame_data, "fl_x")
        f_y == IntrField(json_data, frame_data, "fl_y")
        c_x == IF flip THEN width_pixels - c_x0 ELSE c_x0
        K == [Eye4 EXCEPT ![At(0, 0)] = Fin(f_x), ![At(0, 2)] = Fin(c_x),
                          ![At(1, 1)] = Fin(f_y), ![At(1, 2)] = Fin(c_y)]
        K_matching0 == ScaleRow(ScaleRow(K, 0, Norm(cfg.matching_width, width_pixels)),
                                1, Norm(cfg.matching_height, height_pixels))
        K_depth == ScaleRow(ScaleRow(K, 0, Norm(cfg.depth_width, width_pixels)),
                            1, Norm(cfg.depth_height, height_pixels))
        \* the rotation is applied to K, which is not used afterwards, and to K_matching
        K_matching == IF cfg.rotate_images THEN RotateK(K_matching0, cfg.matching_height)
                      ELSE K_matching0
        scales == [i \in 1..cfg.prediction_num_scales |-> ScaleK(K_depth, i - 1)]
    IN  IF KSingular(K_matching) \/ KSingular(K_depth)
        THEN Raise("LinAlgError")
        ELSE Ok([K_matching_b44 |-> K_matching,
                 invK_matching_b44 |-> InvK(K_matching),
                 full_depth |-> IF cfg.include_full_depth_K
                                THEN <<[K |-> K_depth, invK |-> InvK(K_depth)]>>
                                ELSE <<>>,
                 K_s_b44 |-> scales,
                 invK_s_b44 |-> [i \in 1..Len(scales) |-> InvK(scales[i])]])

\* load_intrinsics(scan_id, frame_id, flip)
LoadIntrinsics(cm, mf, cfg, scan_id, frame_id, flip) ==
    LET l == LoadCaptureMetadata(cm, mf, scan_id)
    IN  IF l.out.status = "raise" THEN l
        ELSE IF ~DictHas(l.cm[scan_id].frames, frame_id)
        THEN [l EXCEPT !.out = Raise("KeyError")]
        ELSE [l EXCEPT !.out = IntrinsicsDict(cfg, l.cm[scan_id],
                                   DictGet(l.cm[scan_id].frames, frame_id), flip)]

-----------------------------------------------------------------------------
(* The valid-frames cache file and get_valid_frame_ids.                    *)

\* get_sub_folder_dir(split) of the base class: the split's sub folder
get_sub_folder_dir(split) == split

NoDepth == [kind |-> "absent", scan |-> <<>>, img |-> <<>>]

NoFile == [exists |-> FALSE, text |-> <<>>]
TextFile(t) == [exists |-> TRUE, text |-> t]

RECURSIVE Join(_)
\* "\n".join(valid_frames)
Join(lines) ==
    IF lines = <<>> THEN <<>>
    ELSE IF Len(lines) = 1 THEN lines[1]
    ELSE lines[1] \o <<NL>> \o Join(Tail(lines))

\* f.write("\n".join(valid_frames) + "\n")
CacheText(valid_frames) == Join(valid_frames) \o <<NL>>

RECURSIVE ReadLinesFrom(_, _, _)
\* f.readlines(): every line keeps its newline; a last line may lack one
ReadLinesFrom(text, i, cur) ==
    IF i > Len(text) THEN (IF cur = <<>> THEN <<>> ELSE <<cur>>)
    ELSE IF text[i] = NL THEN <<Append(cur, NL)>> \o ReadLinesFrom(text, i + 1, <<>>)
    ELSE ReadLinesFrom(text, i + 1, Append(cur, text[i]))

readlines(text) == ReadLinesFrom(text, 1, <<>>)

\* get_valid_frame_path(split, scan): the key of the file, and the mkdir(parents=True,
\* exist_ok=True) of its directory, which fails on a read-only filesystem unless
\* the directory is there already
ValidFramePath(split, scan) == <<get_sub_folder_dir(split), scan>>

GetValidFramePath(dirs, ro, split, scan) ==
    LET path == ValidFramePath(split, scan)
    IN  IF path \in dirs THEN [out |-> Ok(path), dirs |-> dirs]
        ELSE IF ro THEN [out |-> Raise("OSError"), dirs |-> dirs]
        ELSE [out |-> Ok(path), dirs |-> dirs \cup {path}]

RECURSIVE ValidFramesLoop(_, _, _, _, _, _)
\* the loop over self.capture_metadata[scan]["frames"], from key number i on
ValidFramesLoop(cm, mf, scan, i, dist_to_last_valid_frame, valid_frames) ==
    LET keys == cm[scan].frames.keys
    IN  IF i > Len(keys) THEN Ok(valid_frames)
        ELSE LET p == LoadPose(cm, mf, scan, keys[i])
             IN  IF p.out.status = "raise" THEN p.out
                 ELSE IF BadPoseSum(p.out.value)
                 THEN ValidFramesLoop(cm, mf, scan, i + 1,
                                      dist_to_last_valid_frame + 1, valid_frames)
                 ELSE ValidFramesLoop(cm, mf, scan, i + 1, 0,
                          Append(valid_frames,
                                 FormatLine(scan, keys[i], dist_to_last_valid_frame)))

\* PathExists that never finds the file
PathExistsNever(vf, path) == FALSE

\* os.path.exists(valid_frame_path); the path is "" when store_computed is off
PathExists(vf, path) == path # <<>> /\ vf[path].exists

\* the write of the computed list, inside try/except
StoreComputed(vf, ro, path, valid_frames) ==
    IF ro THEN vf ELSE [vf EXCEPT ![path] = TextFile(CacheText(valid_frames))]

\* get_valid_frame_ids(split, scan, store_computed): the outcome and every
\* effect of the call, also of a call that raises part-way
GetValidFrameIds(cm, mf, vf, dirs, ro, split, scan_arg, store_computed) ==
    LET scan == rstrip(scan_arg)
        gp == IF store_computed THEN GetValidFramePath(dirs, ro, split, scan)
              ELSE [out |-> Ok(<<>>), dirs |-> dirs]
        same == [out |-> gp.out, cm |-> cm, vf |-> vf, dirs |-> gp.dirs,
                 metaRead |-> FALSE, vfRead |-> FALSE, computed |-> FALSE]
    IN  IF gp.out.status = "raise" THEN same
        ELSE IF PathExists(vf, gp.out.value)
        THEN [same EXCEPT !.out = Ok(readlines(vf[gp.out.value].text)), !.vfRead = TRUE]
        ELSE LET l == LoadCaptureMetadata(cm, mf, scan)
             IN  IF l.out.status = "raise"
                 THEN [same EXCEPT !.out = l.out, !.metaRead = l.metaRead]
                 ELSE LET r == ValidFramesLoop(l.cm, mf, scan, 1, 0, <<>>)
                      IN  [out |-> r, cm |-> l.cm,
                           vf |-> IF r.status = "ok" /\ store_computed
                                  THEN StoreComputed(vf, ro, gp.out.value, r.value)
                                  ELSE vf,
                           dirs |-> gp.dirs, metaRead |-> l.metaRead,
                           vfRead |-> FALSE, computed |-> r.status = "ok"]

-----------------------------------------------------------------------------
(* The depth loaders.  An image is a sequence of rows of floats.           *)

Street == <<"s", "t", "r", "e", "e", "t">>

\* "street" in scan_id
ContainsStreet(scan_id) ==
    \E i \in 1..(Len(scan_id) - 5) : SubSeq(scan_id, i, i + 5) = Street

RECURSIVE Flatten(_)
Flatten(img) == IF img = <<>> THEN <<>> ELSE Head(img) \o Flatten(Tail(img))

Map2(img, F(_)) == [y \in 1..Len(img) |-> [x \in 1..Len(img[y]) |-> F(img[y][x])]]
Full2(h, w, v) == [y \in 1..h |-> [x \in 1..w |-> v]]

RECURSIVE Insert(_, _), Sort(_)
Insert(v, s) ==
    IF s = <<>> THEN <<v>>
    ELSE IF FLt(Head(s), v) THEN <<Head(s)>> \o Insert(v, Tail(s))
    ELSE <<v>> \o s
Sort(s) == IF s = <<>> THEN <<>> ELSE Insert(Head(s), Sort(Tail(s)))

RAdd(a, b) == Norm(a.n * b.d + b.n * a.d, a.d * b.d)

\* numpy's _lerp(a, b, t) for a <= b, t = fr/20 in [0, 1): a + (b - a) * t, or
\* b - (b - a) * (1 - t) from t = 0.5 on; b - a is NaN or +inf when a is -inf
Lerp(a, b, fr) ==
    IF IsFinite(a) /\ IsFinite(b)
    THEN IF fr < 10 THEN RAdd(a, RMul(RSub(b, a), Rat(fr, 20)))
         ELSE RSub(b, RMul(RSub(b, a), Rat(20 - fr, 20)))
    ELSE IF IsNegInf(a) /\ IsFinite(b) /\ fr >= 10 THEN NInf
    ELSE NaN

\* BelowLimit without the limit: every depth enters the percentile
BelowLimitAll(depth) == Flatten(depth)

\* full_res_depth[full_res_depth < 65000]
BelowLimit(depth) == SelectSeq(Flatten(depth), LAMBDA v : FLt(v, Fin(65000)))

\* np.quantile(vals, 0.95) of a non-empty array without NaN: linear
\* interpolation at the virtual index (n - 1) * 0.95 of the sorted values
Quantile95(vals) ==
    LET s == Sort(vals)
        pos20 == (Len(s) - 1) * 19
        lo == pos20 \div 20
        hi == IF lo + 1 > Len(s) - 1 THEN Len(s) - 1 ELSE lo + 1
    IN  Lerp(s[lo + 1], s[hi + 1], pos20 % 20)

\* cv2.imread on the depth file: the pixels (or None, is_none) when the decoder gives up,
\* or an exception (as with the OpenEXR codec switched off)
Imread(file) ==
    IF file.kind = "image" THEN Ok([is_none |-> FALSE, img |-> file.img])
    ELSE IF file.kind = "decode_none" THEN Ok([is_none |-> TRUE, img |-> <<>>])
    ELSE Raise("cv2.error")

\* _load_depth(depth_path): an exception of imread becomes an array of zeros
LoadDepth(file) ==
    LET r == Imread(file)
    IN  IF r.status = "raise"
        THEN [is_none |-> FALSE, img |-> Full2(PlaceholderSide, PlaceholderSide, Fin(0))]
        ELSE r.value

\* get_full_res_depth_filepath finds the file of this scan, or returns None
DepthFileOf(df, scan_id) == IF df.kind # "absent" /\ df.scan = scan_id THEN df ELSE NoDepth

\* the triple returned when there is no depth file
NoDepthTriple(cfg) ==
    [depth |-> Full2(cfg.depth_height, cfg.depth_width, NaN),
     mask |-> Full2(cfg.depth_height, cfg.depth_width, Fin(0)),
     mask_b |-> Full2(cfg.depth_height, cfg.depth_width, FALSE)]

\* depth, mask_b.float() and mask_b, with depth[~mask_b] = nan
MaskedTriple(depth, mask_b) ==
    [depth |-> [y \in 1..Len(depth) |-> [x \in 1..Len(depth[y]) |->
                   IF mask_b[y][x] THEN depth[y][x] ELSE NaN]],
     mask |-> Map2(mask_b, LAMBDA b : IF b THEN Fin(1) ELSE Fin(0)),
     mask_b |-> mask_b]

\* load_full_res_depth_and_mask(scan_id, frame_id)
LoadFullResDepthAndMask(df, cfg, scan_id) ==
    LET file == DepthFileOf(df, scan_id)
        loaded == LoadDepth(file)
        full_res_depth == loaded.img
        below == BelowLimit(full_res_depth)
    IN  IF file.kind = "absent" THEN Ok(NoDepthTriple(cfg))
        \* the second cv2.imread, at line 485, is outside any try
        ELSE IF Imread(file).status = "raise" THEN Raise("cv2.error")
        \* None < 65000 and None > 0
        ELSE IF loaded.is_none THEN Raise("TypeError")
        ELSE IF ContainsStreet(scan_id) /\ below # <<>>
        THEN LET q == Quantile95(below)
             IN  Ok(MaskedTriple(full_res_depth,
                                 Map2(full_res_depth, LAMBDA v : FLt(v, q))))
        ELSE Ok(MaskedTriple(full_res_depth,
                             Map2(full_res_depth, LAMBDA v : FGt(v, Fin(0)))))

Min(a, b) == IF a < b THEN a ELSE b

\* depth[crop[1]:crop[3], crop[0]:crop[2]] for a crop of non-negative bounds
Crop(img, crop) ==
    LET rows == SubSeq(img, crop[2] + 1, Min(crop[4], Len(img)))
    IN  [y \in 1..Len(rows) |-> SubSeq(rows[y], crop[1] + 1, Min(crop[3], Len(rows[y])))]

IsEmptyImage(img) == img = <<>> \/ img[1] = <<>>

\* cv2.resize(img, dsize=(w, h), interpolation=cv2.INTER_NEAREST): the pixel
\* (x, y) of the result is the pixel floor(x * src_w / w), floor(y * src_h / h)
ResizeNearest(img, w, h) ==
    [y \in 1..h |-> [x \in 1..w |->
        img[Min(((y - 1) * Len(img)) \div h, Len(img) - 1) + 1]
           [Min(((x - 1) * Len(img[1])) \div w, Len(img[1]) - 1) + 1]]]

\* depth / 100
Div100(v) == IF IsFinite(v) THEN Norm(v.n, v.d * 100) ELSE v

NoCrop == <<>>

\* load_target_size_depth_and_mask(scan_id, frame_id, crop)
LoadTargetSizeDepthAndMask(df, cfg, scan_id, crop) ==
    LET file == DepthFileOf(df, scan_id)
        loaded == LoadDepth(file)
        cropped == IF crop # NoCrop THEN Crop(loaded.img, crop) ELSE loaded.img
        depth == ResizeNearest(cropped, cfg.depth_width, cfg.depth_height)
    IN  IF file.kind = "absent" THEN Ok(NoDepthTriple(cfg))
        \* None[...] or cv2.resize(None)
        ELSE IF loaded.is_none THEN Raise(IF crop # NoCrop THEN "TypeError" ELSE "cv2.error")
        ELSE IF IsEmptyImage(cropped) THEN Raise("cv2.error")
        ELSE Ok(MaskedTriple(Map2(depth, Div100), Map2(depth, LAMBDA v : FGt(v, Fin(0)))))

-----------------------------------------------------------------------------
(* The inputs of the model.                                                *)

ScanA == <<"a">>
ScanB == <<"b">>
ScanIds == {ScanA, ScanB}
Splits == {"train", "val"}
VfKeys == {ValidFramePath(sp, sc) : sp \in Splits, sc \in ScanIds}

FramePaths == << <<"f", "1">>, <<"f", "2">>, <<"f", "3">> >>
PathSet == {FramePaths[i] : i \in 1..Len(FramePaths)}
Poses == DOMAIN PoseMatrix

DefaultIntr == [w |-> 8, h |-> 4, cx |-> 4, cy |-> 2, fl_x |-> 6, fl_y |-> 10]
NoOverride == [has |-> {}, val |-> DefaultIntr]

Frame(path, pose) ==
    [has_path |-> TRUE, file_path |-> path, transform_matrix |-> pose, ovr |-> NoOverride]
\* a frame entry without the "file_path" key
FrameNoPath(pose) ==
    [has_path |-> FALSE, file_path |-> <<>>, transform_matrix |-> pose, ovr |-> NoOverride]

AbsentFile == [kind |-> "absent", intr |-> DefaultIntr, frames |-> <<>>]
BadJsonFile == [kind |-> "badjson", intr |-> DefaultIntr, frames |-> <<>>]
NoFramesFile == [kind |-> "noframes", intr |-> DefaultIntr, frames |-> <<>>]
MetaFile(frames) == [kind |-> "ok", intr |-> DefaultIntr, frames |-> frames]

\* the ways to name n frames with the paths, up to renaming: a path is first
\* used only after every path before it in FramePaths
PathPatterns(n) ==
    {pp \in [1..n -> 1..Len(FramePaths)] :
        \A i \in 1..n : \A q \in 1..(pp[i] - 1) : \E j \in 1..(i - 1) : pp[j] = q}

FrameList(pp, mm) == [i \in 1..Len(pp) |-> Frame(FramePaths[pp[i]], mm[i])]

Config(rot, full) ==
    [rotate_images |-> rot, include_full_depth_K |-> full, prediction_num_scales |-> NumScales,
     matching_width |-> 2, matching_height |-> 1, depth_width |-> 4, depth_height |-> 2]
NoConfig == Config(FALSE, FALSE)

Idle ==
    [op |-> "none", scan |-> <<>>, frame |-> <<>>, split |-> "", flag |-> FALSE,
     crop |-> <<>>,
     out |-> Ok(<<>>), metaRead |-> FALSE, vfRead |-> FALSE, computed |-> FALSE]

-----------------------------------------------------------------------------
(* The calls.                                                              *)

load_capture_metadata(scan_id) ==
    \E l \in {LoadCaptureMetadata(capture_metadata, metaFile, scan_id)} :
        /\ capture_metadata' = l.cm
        /\ ret' = [Idle EXCEPT !.op = "load_capture_metadata", !.scan = scan_id,
                               !.out = l.out, !.metaRead = l.metaRead]
        /\ UNCHANGED <<metaFile, vfFile, vfDir, readOnly, depthFile, config>>

load_pose(scan_id, frame_id) ==
    \E l \in {LoadPose(capture_metadata, metaFile, scan_id, frame_id)} :
        /\ capture_metadata' = l.cm
        /\ ret' = [Idle EXCEPT !.op = "load_pose", !.scan = scan_id, !.frame = frame_id,
                               !.out = l.out, !.metaRead = l.metaRead]
        /\ UNCHANGED <<metaFile, vfFile, vfDir, readOnly, depthFile, config>>

load_intrinsics(scan_id, frame_id, flip) ==
    \E l \in {LoadIntrinsics(capture_metadata, metaFile, config, scan_id, frame_id, flip)} :
        /\ capture_metadata' = l.cm
        /\ ret' = [Idle EXCEPT !.op = "load_intrinsics", !.scan = scan_id, !.frame = frame_id,
                               !.flag = flip, !.out = l.out, !.metaRead = l.metaRead]
        /\ UNCHANGED <<metaFile, vfFile, vfDir, readOnly, depthFile, config>>

get_valid_frame_ids(split, scan, store_computed) ==
    \E g \in {GetValidFrameIds(capture_metadata, metaFile, vfFile, vfDir, readOnly,
                              split, scan, store_computed)} :
        /\ capture_metadata' = g.cm
        /\ vfFile' = g.vf
        /\ vfDir' = g.dirs
        /\ ret' = [Idle EXCEPT !.op = "get_valid_frame_ids", !.scan = rstrip(scan),
                               !.split = split, !.flag = store_computed, !.out = g.out,
                               !.metaRead = g.metaRead, !.vfRead = g.vfRead,
                               !.computed = g.computed]
        /\ UNCHANGED <<metaFile, readOnly, depthFile, config>>

load_full_res_depth_and_mask(scan_id) ==
    /\ ret' = [Idle EXCEPT !.op = "load_full_res_depth_and_mask", !.scan = scan_id,
                           !.out = LoadFullResDepthAndMask(depthFile, config, scan_id)]
    /\ UNCHANGED <<metaFile, capture_metadata, vfFile, vfDir, readOnly, depthFile, config>>

load_target_size_depth_and_mask(scan_id, crop) ==
    /\ ret' = [Idle EXCEPT !.op = "load_target_size_depth_and_mask", !.scan = scan_id,
                           !.crop = crop,
                           !.out = LoadTargetSizeDepthAndMask(depthFile, config, scan_id, crop)]
    /\ UNCHANGED <<metaFile, capture_metadata, vfFile, vfDir, readOnly, depthFile, config>>

-----------------------------------------------------------------------------
(* SpecEnum: one scene on disk with any frame list, nothing cached yet.    *)

InitEnum ==
    /\ \E n \in 0..MaxFrames : \E pp \in PathPatterns(n) : \E mm \in [1..n -> Poses] :
           metaFile = [s \in ScanIds |-> IF s = ScanA THEN MetaFile(FrameList(pp, mm))
                                                      ELSE AbsentFile]
    /\ capture_metadata = <<>>
    /\ vfFile = [key \in VfKeys |-> NoFile]
    /\ vfDir = {}
    /\ readOnly = FALSE
    /\ depthFile = NoDepth
    /\ config = NoConfig
    /\ ret = Idle

NextEnum ==
    \/ load_capture_metadata(ScanA)
    \/ \E store_computed \in BOOLEAN : get_valid_frame_ids("train", ScanA, store_computed)

SpecEnum == InitEnum /\ [][NextEnum]_vars

-----------------------------------------------------------------------------
(* SpecCache: two scenes whose metadata files are rewritten and removed     *)
(* while the dataset is in use.                                            *)

F1 == FramePaths[1]
F2 == FramePaths[2]

SmallFiles ==
    {AbsentFile, BadJsonFile, NoFramesFile,
     MetaFile(<<Frame(F1, "ident"), FrameNoPath("ident")>>),
     MetaFile(<<Frame(F1, "nan"), Frame(F2, "ident"), Frame(F1, "ident")>>),
     MetaFile(<<Frame(F2, "zero")>>)}

\* the file of a scene is written, rewritten or removed by another program
write_meta_file(scan_id, file) ==
    /\ metaFile[scan_id] # file
    /\ metaFile' = [metaFile EXCEPT ![scan_id] = file]
    /\ UNCHANGED <<capture_metadata, vfFile, vfDir, readOnly, depthFile, config, ret>>

InitCache ==
    /\ metaFile \in [ScanIds -> SmallFiles]
    /\ capture_metadata = <<>>
    /\ vfFile = [key \in VfKeys |-> NoFile]
    /\ vfDir = {}
    /\ readOnly = FALSE
    /\ depthFile = NoDepth
    /\ config = NoConfig
    /\ ret = Idle

NextCache ==
    \/ \E s \in ScanIds, file \in SmallFiles : write_meta_file(s, file)
    \/ \E s \in ScanIds : load_capture_metadata(s)
    \/ \E s \in ScanIds, f \in {F1, F2} : load_pose(s, f)
    \/ \E s \in ScanIds, f \in {F1, F2}, flip \in BOOLEAN : load_intrinsics(s, f, flip)
    \/ \E s \in ScanIds \cup {ScanA \o <<NL>>} : get_valid_frame_ids("train", s, FALSE)

SpecCache == InitCache /\ [][NextCache]_vars

CallOps == {"load_capture_metadata", "load_pose", "load_intrinsics", "get_valid_frame_ids"}

\* a step is a call on scene s: the files are as before and ret describes it
CallOn(s) == metaFile' = metaFile /\ ret'.op \in CallOps /\ ret'.scan = s

\* C4: a call for a scene that is in the cache, made directly or through
\* load_pose, load_intrinsics or get_valid_frame_ids, opens no metadata file
\* and leaves the whole cache as it was, whatever the file has become
C4_LoadedIsNoOp ==
    [][\A s \in DOMAIN capture_metadata :
           CallOn(s) => capture_metadata' = capture_metadata /\ ~ret'.metaRead]_vars

\* a pose was resolved from the cache after the scene's file was removed
C4_Witness ==
    /\ ret.op = "load_pose" /\ ret.scan = ScanA /\ ret.out.status = "ok"
    /\ ~ret.metaRead
    /\ metaFile[ScanA].kind = "absent"
    /\ ScanA \in DOMAIN capture_metadata

\* the scene's metadata file cannot be loaded: it is absent, is not JSON, has
\* no frame list or has a frame without a file_path
Unloadable(file) ==
    \/ file.kind \in {"absent", "badjson", "noframes"}
    \/ \E i \in 1..Len(file.frames) : ~file.frames[i].has_path

\* C11: a call for a scene that is not in the cache and whose metadata file
\* cannot be loaded, made directly or through load_pose, load_intrinsics or
\* get_valid_frame_ids, raises the error of the load and leaves the whole cache
\* as it was, so the scene stays out of the cache; and a call for a scene that
\* is not in the cache and has a file opens that file
C11_FailureLeavesCache ==
    [][\A s \in ScanIds :
           (s \notin DOMAIN capture_metadata /\ CallOn(s))
           => /\ Unloadable(metaFile[s])
                 => /\ ret'.out.status = "raise"
                    /\ ret'.out.err \in
                           {"FileNotFoundError", "JSONDecodeError", "KeyError"}
                    /\ capture_metadata' = capture_metadata
              /\ metaFile[s].kind # "absent" => ret'.metaRead]_vars

\* load_pose failed on a file with a frame without file_path while the other
\* scene was in the cache, and the failing scene is not in the cache
C11_Witness ==
    /\ ret.op = "load_pose" /\ ret.scan = ScanA /\ ret.out = Raise("KeyError")
    /\ metaFile[ScanA].kind = "ok" /\ Unloadable(metaFile[ScanA])
    /\ DOMAIN capture_metadata = {ScanB}

-----------------------------------------------------------------------------
(* SpecValid: one scene, a valid-frames cache file that may be there from   *)
(* an earlier run, and a filesystem that may be read-only.                 *)

ValidFiles ==
    {AbsentFile, MetaFile(<<>>),
     MetaFile(<<Frame(F1, "nan"), Frame(F2, "ident"), Frame(F1, "ident")>>)}

\* what an earlier run, or anyone, may have left in valid_frames.txt
StaleTexts ==
    {<<>>, <<"a", " ", "f", "9", " ", "0", NL>>, <<"x", NL, "y">>}

KeysA == {ValidFramePath(sp, ScanA) : sp \in Splits}

\* the filesystem is remounted read-only or read-write
remount ==
    /\ readOnly' = ~readOnly
    /\ UNCHANGED <<metaFile, capture_metadata, vfFile, vfDir, depthFile, config, ret>>

InitValid ==
    /\ \E file \in ValidFiles :
           metaFile = [s \in ScanIds |-> IF s = ScanA THEN file ELSE AbsentFile]
    /\ capture_metadata = <<>>
    /\ \/ vfFile = [key \in VfKeys |-> NoFile]
       \/ \E k \in KeysA, t \in StaleTexts :
              vfFile = [key \in VfKeys |-> IF key = k THEN TextFile(t) ELSE NoFile]
    /\ vfDir \in SUBSET KeysA
    /\ \A key \in VfKeys : vfFile[key].exists => key \in vfDir
    /\ readOnly \in BOOLEAN
    /\ depthFile = NoDepth
    /\ config = NoConfig
    /\ ret = Idle

NextValid ==
    \/ remount
    \/ \E sp \in Splits, s \in {ScanA, ScanA \o <<NL>>}, store_computed \in BOOLEAN :
           get_valid_frame_ids(sp, s, store_computed)

SpecValid == InitValid /\ [][NextValid]_vars

\* a step is a call of get_valid_frame_ids(split, scan, store_computed)
ValidCall(split, scan, store_computed) ==
    /\ readOnly' = readOnly
    /\ ret'.op = "get_valid_frame_ids"
    /\ ret'.split = split /\ ret'.scan = scan /\ ret'.flag = store_computed

C6_WriteFailureNotFatal ==
    [][\A key \in VfKeys :
           (readOnly /\ ~vfFile[key].exists /\ ValidCall(key[1], key[2], TRUE))
           => ret'.out = GetValidFrameIds(capture_metadata, metaFile, vfFile, vfDir,
                                          readOnly, key[1], key[2], FALSE).out]_vars

\* C12: after a call with store_computed on has computed the list and written
\* the cache file, the next call with the same arguments reads the file and
\* returns the same list, entry by entry, also when the list is empty
C12_CacheRoundTrip ==
    [][\A key \in VfKeys :
           (/\ ret.op = "get_valid_frame_ids" /\ ret.flag /\ ret.computed
            /\ ret.split = key[1] /\ ret.scan = key[2]
            /\ vfFile[key].exists
            /\ ValidCall(key[1], key[2], TRUE))
           => /\ ret'.vfRead /\ ~ret'.computed
              /\ ret'.out = ret.out]_vars

-----------------------------------------------------------------------------
(* SpecDepth: one depth file on disk, of any content, and the two loaders.  *)

StreetScans == {Street, <<"x">> \o Street \o <<"1">>}
DepthScans == {ScanA} \cup StreetScans

PixelValues == {Fin(0), Fin(-5), Fin(10), Fin(30), Fin(70000), PInf, NInf, NaN}

RowImage(px) == <<px>>
ColImage(px) == [y \in 1..Len(px) |-> <<px[y]>>]

Crops == {NoCrop, <<0, 0, 1, 1>>, <<1, 0, 3, 1>>, <<0, 1, 1, 3>>, <<3, 3, 4, 4>>}

DepthConfig(w, h) == [NoConfig EXCEPT !.depth_width = w, !.depth_height = h]

InitDepth ==
    /\ metaFile = [s \in ScanIds |-> AbsentFile]
    /\ capture_metadata = <<>>
    /\ vfFile = [key \in VfKeys |-> NoFile]
    /\ vfDir = {}
    /\ readOnly = FALSE
    /\ \/ depthFile = NoDepth
       \/ \E s \in DepthScans, k \in {"decode_none", "decode_raise"} :
              depthFile = [kind |-> k, scan |-> s, img |-> <<>>]
       \/ \E s \in DepthScans, n \in 1..MaxPixels : \E px \in [1..n -> PixelValues] :
              \/ depthFile = [kind |-> "image", scan |-> s, img |-> RowImage(px)]
              \/ depthFile = [kind |-> "image", scan |-> s, img |-> ColImage(px)]
    /\ config \in {DepthConfig(2, 1), DepthConfig(1, 2)}
    /\ ret = Idle

\* the loaders change nothing: one call on each input shows all they do
NextDepth ==
    \/ ret = Idle /\ \E s \in DepthScans : load_full_res_depth_and_mask(s)
    \/ ret = Idle /\ \E s \in DepthScans, crop \in Crops :
                         load_target_size_depth_and_mask(s, crop)

SpecDepth == InitDepth /\ [][NextDepth]_vars

-----------------------------------------------------------------------------
(* Claims about the depth loaders (SpecDepth).                             *)

FullRes == ret.op = "load_full_res_depth_and_mask"
TargetSize == ret.op = "load_target_size_depth_and_mask"

\* the call was made on the scene of the depth file, which holds an image
OnImage == depthFile.kind = "image" /\ ret.scan = depthFile.scan
\* the call was made on the scene of a depth file that does not decode
OnUndecodable ==
    depthFile.kind \in {"decode_none", "decode_raise"} /\ ret.scan = depthFile.scan

\* C7: with a depth file that cannot be decoded, both loaders return a triple
C7_DecodeFailureSwallowed ==
    ((FullRes \/ TargetSize) /\ OnUndecodable /\ ret.crop = NoCrop)
    => ret.out.status = "ok"

Below65000(img) == SelectSeq(Flatten(img), LAMBDA v : FLt(v, Fin(65000)))

\* the validity rule the returned depth v is held to, for the stored image img
SatisfiesRule(v, img) ==
    IF FullRes /\ ret.scan \in StreetScans /\ Below65000(img) # <<>>
    THEN FLt(v, Quantile95(Below65000(img)))
    ELSE FGt(v, Fin(0))

Threshold(img) ==
    IF Below65000(img) = <<>> THEN NaN ELSE Quantile95(Below65000(img))

\* the image load_target_size_depth_and_mask takes its mask from
Resized ==
    ResizeNearest(IF ret.crop # NoCrop THEN Crop(depthFile.img, ret.crop) ELSE depthFile.img,
                  config.depth_width, config.depth_height)

\* C9 as stated: at full resolution the mask of a scene with "street" in its
\* id is depth < T, that of any other scene depth > 0; at target size it is
\* depth > 0 for every scene
C9_Original ==
    (OnImage /\ ret.out.status = "ok")
    => /\ FullRes =>
              ret.out.value.mask_b =
                  IF ret.scan \in StreetScans
                  THEN Map2(depthFile.img, LAMBDA v : FLt(v, Threshold(depthFile.img)))
                  ELSE Map2(depthFile.img, LAMBDA v : FGt(v, Fin(0)))
       /\ TargetSize =>
              ret.out.value.mask_b = Map2(Resized, LAMBDA v : FGt(v, Fin(0)))

\* C9 amended: the rule depth < T holds for a "street" scene with at least one
\* depth below 65000; a "street" scene with none falls back to depth > 0
C9_StreetRule ==
    (OnImage /\ ret.out.status = "ok")
    => /\ FullRes =>
              ret.out.value.mask_b =
                  IF ret.scan \in StreetScans /\ Below65000(depthFile.img) # <<>>
                  THEN Map2(depthFile.img, LAMBDA v : FLt(v, Threshold(depthFile.img)))
                  ELSE Map2(depthFile.img, LAMBDA v : FGt(v, Fin(0)))
       /\ TargetSize =>
              ret.out.value.mask_b = Map2(Resized, LAMBDA v : FGt(v, Fin(0)))

\* depths 10, 70000, 30 of a "street" scene: the threshold is 29
C9_Witness ==
    /\ FullRes /\ OnImage /\ ret.scan \in StreetScans
    /\ depthFile.img = << <<Fin(10), Fin(70000), Fin(30)>> >>
    /\ ret.out.value.mask_b = << <<TRUE, FALSE, FALSE>> >>

-----------------------------------------------------------------------------
(* SpecIntr: one scene with one frame, any intrinsics, with and without    *)
(* per-frame overrides, under every setting of rotate_images.              *)

SceneIntrs ==
    [w : {4, 8}, h : {4}, cx : {1, 4}, cy : {2, 3}, fl_x : {0, 6}, fl_y : {6, 10}]

\* the per-frame values of a frame that overrides fields of the scene
FrameIntr == [w |-> 2, h |-> 2, cx |-> 1, cy |-> 1, fl_x |-> 3, fl_y |-> 5]
Overrides == {{}, {"fl_x", "fl_y"}, {"w", "h", "cx", "cy"}}

InitIntr ==
    /\ \E intr \in SceneIntrs, has \in Overrides :
           metaFile = [s \in ScanIds |->
               IF s = ScanA
               THEN [kind |-> "ok", intr |-> intr,
                     frames |-> <<[Frame(F1, "ident") EXCEPT
                                      !.ovr = [has |-> has, val |-> FrameIntr]]>>]
               ELSE AbsentFile]
    /\ capture_metadata = <<>>
    /\ vfFile = [key \in VfKeys |-> NoFile]
    /\ vfDir = {}
    /\ readOnly = FALSE
    /\ depthFile = NoDepth
    /\ config \in {Config(rot, full) : rot \in BOOLEAN, full \in BOOLEAN}
    /\ ret = Idle

NextIntr ==
    \/ load_capture_metadata(ScanA)
    \/ \E f \in {F1, F2}, flip \in BOOLEAN : load_intrinsics(ScanA, f, flip)

SpecIntr == InitIntr /\ [][NextIntr]_vars

\* M is M0 with the focal lengths swapped and the principal point at
\* (height - old_cy, old_cx)
Transposed(M, M0, height) ==
    /\ M[At(0, 0)] = M0[At(1, 1)]
    /\ M[At(1, 1)] = M0[At(0, 0)]
    /\ M[At(0, 2)] = RSub(height, M0[At(1, 2)])
    /\ M[At(1, 2)] = M0[At(0, 2)]

\* C10: with rotate_images set, every forward matrix load_intrinsics returns
\* is the transposed form of the matrix it returns without rotation, with the
\* image height of that matrix's resolution
C10_RotatedIntrinsics ==
    (ret.op = "load_intrinsics" /\ ret.out.status = "ok" /\ config.rotate_images)
    => LET json_data == capture_metadata[ret.scan]
           plain == IntrinsicsDict([config EXCEPT !.rotate_images = FALSE], json_data,
                                   DictGet(json_data.frames, ret.frame), ret.flag).value
           got == ret.out.value
       IN  /\ Transposed(got.K_matching_b44, plain.K_matching_b44,
                         Fin(config.matching_height))
           /\ \A i \in 1..Len(got.full_depth) :
                  Transposed(got.full_depth[i].K, plain.full_depth[i].K,
                             Fin(config.depth_height))
           /\ \A i \in 1..Len(got.K_s_b44) :
                  Transposed(got.K_s_b44[i], plain.K_s_b44[i],
                             Norm(config.depth_height, 2 ^ (i - 1)))

-----------------------------------------------------------------------------
(* Claims about the computed list and the loaded metadata (SpecEnum).      *)

Computed == ret.op = "get_valid_frame_ids" /\ ret.computed

PoseSumFinite(frame) == IsFinite(npsum(PoseMatrix[frame.transform_matrix]))
PoseEntriesFinite(frame) ==
    \A i \in 1..16 : IsFinite(PoseMatrix[frame.transform_matrix][i])

\* the indices of s, in order, whose frame has a finite pose sum
FiniteIndices(frs) ==
    SelectSeq([i \in 1..Len(frs) |-> i], LAMBDA i : PoseSumFinite(frs[i]))

GapIsZero(line) ==
    Len(line) >= 2 /\ line[Len(line)] = "0" /\ line[Len(line) - 1] = SP

C3_LastOccurrenceWins ==
    \A s \in DOMAIN capture_metadata :
        LET frs == metaFile[s].frames
            d == capture_metadata[s].frames
            last(path) == CHOOSE i \in 1..Len(frs) :
                              /\ frs[i].file_path = path
                              /\ \A j \in (i + 1)..Len(frs) : frs[j].file_path # path
        IN  /\ Len(d.val) = Len(d.keys)
            /\ \A i, j \in 1..Len(d.keys) : d.keys[i] = d.keys[j] => i = j
            /\ {d.keys[i] : i \in 1..Len(d.keys)} = {frs[i].file_path : i \in 1..Len(frs)}
            /\ \A i \in 1..Len(d.keys) : d.val[i] = frs[last(d.keys[i])]

\* a path that occurs twice with different records has been loaded
C3_Witness ==
    /\ ret.op = "load_capture_metadata" /\ ret.out.status = "ok"
    /\ ScanA \in DOMAIN capture_metadata
    /\ \E i, j \in 1..Len(metaFile[ScanA].frames) :
           /\ i < j
           /\ metaFile[ScanA].frames[i].file_path = metaFile[ScanA].frames[j].file_path
           /\ metaFile[ScanA].frames[i] # metaFile[ScanA].frames[j]

====
